---- MODULE Spec2Model ----
(***************************************************************************)
(* Model of the scoring service in api/src/main.py: the seeded round-robin *)
(* match set, the score_confirmations table, the consensus resolver and    *)
(* the POST /matches/{id}/confirm and GET /rounds handlers running as      *)
(* concurrent requests against one SQLite database.                        *)
(*                                                                         *)
(* A nullable column or an Optional value is a sequence of length 0 (NULL, *)
(* None) or 1 (<<v>>).  Timestamps (created_at, updated_at, confirmed_at)  *)
(* are left out: no handler reads them.                                    *)
(***************************************************************************)
EXTENDS Integers, Sequences, FiniteSets, TLC

\* ------------------------------------------------------------------ bounds

\* Request handlers that may be in flight at the same time.
NumHandlers == 3

\* How many of SamplePairs the clients submit.
NumPairs == 2

\* ------------------------------------------------------------ Optional/NULL

Null == <<>>

Some(v) == <<v>>

IsNull(x) == x = <<>>

Val(x) == x[1]

\* ---------------------------------------------------------------- users

\* demo_users, in insertion order: AUTOINCREMENT gives them ids 1..5.
DemoUsers ==
  << [handle |-> "alice",  display_name |-> "Alice Mercer", role |-> "player"],
     [handle |-> "bob",    display_name |-> "Bob Singh",    role |-> "player"],
     [handle |-> "carla",  display_name |-> "Carla Diaz",   role |-> "player"],
     [handle |-> "diego",  display_name |-> "Diego Kim",    role |-> "player"],
     [handle |-> "viewer", display_name |-> "Live Viewer",  role |-> "viewer"] >>

UserIds == DOMAIN DemoUsers

\* SELECT id FROM users WHERE role = 'player' ORDER BY id
RECURSIVE PlayerIdsFrom(_)
PlayerIdsFrom(i) ==
  IF i > Len(DemoUsers) THEN <<>>
  ELSE IF DemoUsers[i].role = "player" THEN <<i>> \o PlayerIdsFrom(i + 1)
  ELSE PlayerIdsFrom(i + 1)

SeedPlayerIds == PlayerIdsFrom(1)

\* ------------------------------------------------------- fixture generator

\* Mutant: the whole list rotates, position 0 included.
Rotate_NoFixedSeat(participants) ==
  LET count == Len(participants) IN
  IF count < 2 THEN participants
  ELSE <<participants[count]>> \o SubSeq(participants, 1, count - 1)

\* Mutant: the rotation runs the other way, [pos0, pos2..pos_last, pos1].
Rotate_OtherWay(participants) ==
  LET count == Len(participants) IN
  IF count < 3 THEN participants
  ELSE <<participants[1]>> \o SubSeq(participants, 3, count) \o <<participants[2]>>

\* participants = [participants[0], participants[-1], *participants[1:-1]]
Rotate(participants) ==
  LET count == Len(participants) IN
  IF count < 2 THEN participants
  ELSE <<participants[1], participants[count]>> \o SubSeq(participants, 2, count - 1)

\* The pairs of one round: i runs over range(half), 0-based as in the source.
RECURSIVE RoundPairs(_, _, _)
RoundPairs(participants, round_index, i) ==
  LET count == Len(participants)
      half  == count \div 2
  IN IF i >= half THEN <<>>
     ELSE LET left  == participants[i + 1]
              right == participants[count - i]
              rest  == RoundPairs(participants, round_index, i + 1)
          IN IF IsNull(left) \/ IsNull(right) THEN rest
             ELSE IF round_index % 2 = 0 /\ i = 0
                  THEN << <<Val(right), Val(left)>> >> \o rest
                  ELSE << <<Val(left), Val(right)>> >> \o rest

RECURSIVE RoundsFrom(_, _)
RoundsFrom(participants, round_index) ==
  IF round_index >= Len(participants) - 1 THEN <<>>
  ELSE << RoundPairs(participants, round_index, 0) >>
       \o RoundsFrom(Rotate(participants), round_index + 1)

\* Mutant: an odd list gets no bye slot.
GenerateRoundRobin_NoBye(player_ids) ==
  RoundsFrom([k \in 1..Len(player_ids) |-> Some(player_ids[k])], 0)

GenerateRoundRobin(player_ids) ==
  LET opt    == [k \in 1..Len(player_ids) |-> Some(player_ids[k])]
      padded == IF Len(opt) % 2 = 1 THEN Append(opt, Null) ELSE opt
  IN RoundsFrom(padded, 0)

\* Mutant: the tables of a round are counted from 0.
RECURSIVE SeedRows_FromZero(_, _, _)
SeedRows_FromZero(rounds, r, t) ==
  IF r > Len(rounds) THEN <<>>
  ELSE IF t > Len(rounds[r]) THEN SeedRows_FromZero(rounds, r + 1, 1)
  ELSE << [round_number     |-> r,
           table_number     |-> t - 1,
           player1_id       |-> rounds[r][t][1],
           player2_id       |-> rounds[r][t][2],
           confirmed_score1 |-> Null,
           confirmed_score2 |-> Null] >>
       \o SeedRows_FromZero(rounds, r, t + 1)

\* The rows _seed_demo_data inserts into matches, in insertion order (the
\* AUTOINCREMENT id of a row is its position).
RECURSIVE SeedRows(_, _, _)
SeedRows(rounds, r, t) ==
  IF r > Len(rounds) THEN <<>>
  ELSE IF t > Len(rounds[r]) THEN SeedRows(rounds, r + 1, 1)
  ELSE << [round_number     |-> r,
           table_number     |-> t,
           player1_id       |-> rounds[r][t][1],
           player2_id       |-> rounds[r][t][2],
           confirmed_score1 |-> Null,
           confirmed_score2 |-> Null] >>
       \o SeedRows(rounds, r, t + 1)

SeedMatches == SeedRows(GenerateRoundRobin(SeedPlayerIds), 1, 1)

\* --------------------------------------------------------- the award

\* ScoreConfirmRequest: score1, score2 are integers with ge=0, le=999.
MaxScore == 999

\* Mutant: a draw awards nothing.
MatchPoints_DrawIsNothing(score1, score2) ==
  IF score1 > score2 THEN <<3, 0>>
  ELSE IF score2 > score1 THEN <<0, 3>>
  ELSE <<0, 0>>

\* _match_points
MatchPoints(score1, score2) ==
  IF score1 > score2 THEN <<3, 0>>
  ELSE IF score2 > score1 THEN <<0, 3>>
  ELSE <<1, 1>>

\* ------------------------------------------------------------- inputs

\* Score pairs a client may send, all inside ScoreConfirmRequest's 0..999.
\* "1:12" and "11:2" differ only by where the separator stands.
SamplePairs == << <<1, 12>>, <<11, 2>>, <<2, 1>>, <<1, 2>>, <<0, 0>> >>

ScorePairs == { SamplePairs[k] : k \in 1..NumPairs }

\* The principal a bearer token resolves to: None (missing or unknown token)
\* or a row of users.
Principals == {Null} \cup { Some(u) : u \in UserIds }

\* Match ids the clients name: the first seeded match and an id no row has.
\* Matches share no state, so the other seeded rows stay as seeded.
RequestMatchIds == {1, Len(SeedMatches) + 1}

\* Principals that poll GET /rounds.
ReaderPrincipals == {Null, Some(1)}

Handlers == 1..NumHandlers

\* ------------------------------------------------------------- database

VARIABLES
  matches,              \* table matches: id -> row (committed state)
  score_confirmations,  \* table score_confirmations: set of rows (committed)
  pc,                   \* per handler: where confirm_match_score stands
  last,                 \* the event of the latest step (request/response)
  submitted,            \* history: match id -> score pairs ever stored for it
  users,                \* table users: id -> row
  sqlite_sequence       \* AUTOINCREMENT: table -> largest id ever given

vars == <<matches, score_confirmations, pc, last, submitted, users, sqlite_sequence>>

\* sqlite_sequence after the first seed: five users, the seeded matches.
SeededSequence == [users |-> Len(DemoUsers), matches |-> Len(SeedMatches)]

MatchIds == DOMAIN matches

IsConfirmed(row) == ~IsNull(row.confirmed_score1) /\ ~IsNull(row.confirmed_score2)

\* SELECT ... FROM score_confirmations WHERE match_id = ?
RowsOf(confs, match_id) == { c \in confs : c.match_id = match_id }

\* Mutant: ON CONFLICT DO NOTHING, the row of a resubmission keeps its pair.
Upsert_DoNothing(confs, match_id, player_id, score1, score2) ==
  IF \E c \in confs : c.match_id = match_id /\ c.player_id = player_id
    THEN confs
    ELSE confs \cup { [match_id |-> match_id, player_id |-> player_id,
                       score1 |-> score1, score2 |-> score2] }

\* Mutant: a plain INSERT into a table without UNIQUE(match_id, player_id).
Upsert_InsertOnly(confs, match_id, player_id, score1, score2) ==
  confs \cup { [match_id |-> match_id, player_id |-> player_id,
                score1 |-> score1, score2 |-> score2] }

\* INSERT ... ON CONFLICT(match_id, player_id) DO UPDATE SET score1, score2
Upsert(confs, match_id, player_id, score1, score2) ==
  { c \in confs : ~(c.match_id = match_id /\ c.player_id = player_id) }
    \cup { [match_id |-> match_id, player_id |-> player_id,
            score1 |-> score1, score2 |-> score2] }

\* The first row of ORDER BY player_id.
FirstByPlayer(rows) ==
  CHOOSE c \in rows : \A d \in rows : c.player_id <= d.player_id

\* The resolver with one of its guards changed: threshold is the number of
\* rows below which it returns, recheck whether it returns on a match that is
\* already confirmed.
ResolveWith(ms, confs, match_id, threshold, recheck) ==
  IF match_id \notin DOMAIN ms THEN ms
  ELSE IF recheck /\ IsConfirmed(ms[match_id]) THEN ms
  ELSE LET confirmations == RowsOf(confs, match_id) IN
       IF Cardinality(confirmations) < threshold THEN ms
       ELSE LET first == FirstByPlayer(confirmations)
                consensus == \A row \in confirmations \ {first} :
                               row.score1 = first.score1 /\ row.score2 = first.score2
            IN IF ~consensus THEN ms
               ELSE [ms EXCEPT ![match_id].confirmed_score1 = Some(first.score1),
                               ![match_id].confirmed_score2 = Some(first.score2)]

\* Mutant: the resolver without its own already-confirmed return.
ConfirmScoresIfConsensus_NoRecheck(ms, confs, match_id) ==
  ResolveWith(ms, confs, match_id, 2, FALSE)

\* Mutant: the resolver returns only when there is no report at all.
ConfirmScoresIfConsensus_OneReport(ms, confs, match_id) ==
  ResolveWith(ms, confs, match_id, 1, TRUE)

\* Mutant: the resolver asks for more than two reports.
ConfirmScoresIfConsensus_NeedsThree(ms, confs, match_id) ==
  ResolveWith(ms, confs, match_id, 3, TRUE)

\* Mutant: a confirmed match whose stored reports no longer agree is reopened.
ConfirmScoresIfConsensus_Reopen(ms, confs, match_id) ==
  IF match_id \notin DOMAIN ms THEN ms
  ELSE IF IsConfirmed(ms[match_id])
    THEN IF Cardinality({ <<c.score1, c.score2>> : c \in RowsOf(confs, match_id) }) > 1
           THEN [ms EXCEPT ![match_id].confirmed_score1 = Null,
                           ![match_id].confirmed_score2 = Null]
           ELSE ms
  ELSE ResolveWith(ms, confs, match_id, 2, TRUE)

\* _confirm_scores_if_consensus: the matches table after the call.
ConfirmScoresIfConsensus(ms, confs, match_id) ==
  IF match_id \notin DOMAIN ms THEN ms
  ELSE IF IsConfirmed(ms[match_id]) THEN ms
  ELSE LET confirmations == RowsOf(confs, match_id) IN
       IF Cardinality(confirmations) < 2 THEN ms
       ELSE LET first == FirstByPlayer(confirmations)
                consensus == \A row \in confirmations \ {first} :
                               row.score1 = first.score1 /\ row.score2 = first.score2
            IN IF ~consensus THEN ms
               ELSE [ms EXCEPT ![match_id].confirmed_score1 = Some(first.score1),
                               ![match_id].confirmed_score2 = Some(first.score2)]

\* Mutant: the commit comes before the consensus check, whose update is lost.
ConfirmTxn_UpsertOnly(ms, confs, match_id, player_id, score1, score2) ==
  [matches |-> ms,
   score_confirmations |-> Upsert(confs, match_id, player_id, score1, score2)]

\* Mutant: the upsert is rolled back and the consensus check alone applies.
ConfirmTxn_CheckOnly(ms, confs, match_id, player_id, score1, score2) ==
  [matches |-> ConfirmScoresIfConsensus(ms, confs, match_id),
   score_confirmations |-> confs]

\* Lines 1010-1024 of confirm_match_score: one write transaction, the upsert
\* and the consensus check committed together.
ConfirmTxn(ms, confs, match_id, player_id, score1, score2) ==
  LET upserted == Upsert(confs, match_id, player_id, score1, score2)
  IN [matches |-> ConfirmScoresIfConsensus(ms, upserted, match_id),
      score_confirmations |-> upserted]

\* ------------------------------------------------------------ match view

DigitChars == <<"0", "1", "2", "3", "4", "5", "6", "7", "8", "9">>

\* SQLite's integer-to-text cast: the decimal digits of n >= 0.
RECURSIVE DecimalText(_)
DecimalText(n) ==
  IF n < 10 THEN <<DigitChars[n + 1]>>
  ELSE DecimalText(n \div 10) \o <<DigitChars[(n % 10) + 1]>>

\* Mutant: the two numbers joined without the ':' between them.
ScoreKey_NoSeparator(score1, score2) == DecimalText(score1) \o DecimalText(score2)

\* sc.score1 || ':' || sc.score2
ScoreKey(score1, score2) == DecimalText(score1) \o <<":">> \o DecimalText(score2)

\* COUNT(DISTINCT sc.score1 || ':' || sc.score2) over the match's rows
DistinctConfirmations(confs, match_id) ==
  Cardinality({ ScoreKey(c.score1, c.score2) : c \in RowsOf(confs, match_id) })

\* Mutant: a single stored pair already counts as a dispute.
StatusValue_DisputedAtOne(row, distinct_confirmations) ==
  IF IsConfirmed(row) THEN "confirmed"
  ELSE IF distinct_confirmations > 0 THEN "disputed"
  ELSE "pending"

\* Mutant: the dispute test comes before the confirmed test.
StatusValue_DisputedFirst(row, distinct_confirmations) ==
  IF distinct_confirmations > 1 THEN "disputed"
  ELSE IF IsConfirmed(row) THEN "confirmed"
  ELSE "pending"

\* The status branch of _build_match_dto.
StatusValue(row, distinct_confirmations) ==
  IF IsConfirmed(row) THEN "confirmed"
  ELSE IF distinct_confirmations > 1 THEN "disputed"
  ELSE "pending"

\* LEFT JOIN score_confirmations my ON my.match_id = m.id AND my.player_id = ?
MyConfirmation(confs, match_id, user) ==
  LET mine == { c \in RowsOf(confs, match_id) : ~IsNull(user) /\ c.player_id = Val(user) }
  IN IF mine = {} THEN Null
     ELSE LET c == CHOOSE c \in mine : TRUE IN Some(<<c.score1, c.score2>>)

\* The row of the match query joined with its confirmations, as a MatchDto.
BuildMatchDto(ms, confs, match_id, user) ==
  LET row == ms[match_id] IN
  [id               |-> match_id,
   round_number     |-> row.round_number,
   table_number     |-> row.table_number,
   player1          |-> row.player1_id,
   player2          |-> row.player2_id,
   status           |-> StatusValue(row, DistinctConfirmations(confs, match_id)),
   confirmed_score1 |-> row.confirmed_score1,
   confirmed_score2 |-> row.confirmed_score2,
   confirmations    |-> Cardinality(RowsOf(confs, match_id)),
   my_confirmation  |-> MyConfirmation(confs, match_id, user)]

\* _fetch_matches: every match as a MatchDto.  The ORDER BY (round_number,
\* table_number, id) is the order of the seeded ids.
FetchMatches(ms, confs, user) ==
  [id \in DOMAIN ms |-> BuildMatchDto(ms, confs, id, user)]

\* ------------------------------------------------------------- text

\* The display names of the model as their code points (ord of each
\* character; all are ASCII).
CodePoints(name) ==
  CASE name = "Alice Mercer" ->
         <<65, 108, 105, 99, 101, 32, 77, 101, 114, 99, 101, 114>>
    [] name = "Bob Singh" ->
         <<66, 111, 98, 32, 83, 105, 110, 103, 104>>
    [] name = "Carla Diaz" ->
         <<67, 97, 114, 108, 97, 32, 68, 105, 97, 122>>
    [] name = "Diego Kim" ->
         <<68, 105, 101, 103, 111, 32, 75, 105, 109>>
    [] name = "Live Viewer" ->
         <<76, 105, 118, 101, 32, 86, 105, 101, 119, 101, 114>>
    [] name = "bob adams" ->
         <<98, 111, 98, 32, 97, 100, 97, 109, 115>>
    [] name = "Aaron Guest" ->
         <<65, 97, 114, 111, 110, 32, 71, 117, 101, 115, 116>>
    [] name = "alice mercer" ->
         <<97, 108, 105, 99, 101, 32, 109, 101, 114, 99, 101, 114>>

\* str.lower() on code points: A..Z (65..90) become a..z, others stay.
TextLower(text) ==
  [k \in DOMAIN text |-> IF text[k] \in 65..90 THEN text[k] + 32 ELSE text[k]]

\* a < b for strings: by code point at the first difference, a proper
\* prefix first (Python's str order and SQLite's BINARY collation).
TextLess(a, b) ==
  \E k \in 1..Len(b) :
    /\ \A j \in 1..(k - 1) : j <= Len(a) /\ a[j] = b[j]
    /\ \/ k > Len(a)
       \/ k <= Len(a) /\ a[k] < b[k]

\* The sequence that lists S with x ahead of y whenever <<x, y>> is in
\* before, a strict total order on S.  ranks pairs each element with the
\* number of elements ahead of it.
RECURSIVE RankedFrom(_, _)
RankedFrom(ranks, k) ==
  IF k >= Cardinality(ranks) THEN <<>>
  ELSE <<(CHOOSE p \in ranks : p[1] = k)[2]>> \o RankedFrom(ranks, k + 1)

Ranked(S, before) ==
  RankedFrom({ <<Cardinality({ y \in S : <<y, x>> \in before }), x>> : x \in S }, 0)

\* ------------------------------------------------------------ standings

\* The database a connection reads.
DbOf(us, ms, confs) == [users |-> us, matches |-> ms, score_confirmations |-> confs]

\* Mutant: every user is taken for a player.
IsPlayerRow_AnyRole(row) == row.role \in {"player", "viewer"}

\* WHERE role = 'player'
IsPlayerRow(row) == row.role = "player"

\* SELECT id .. FROM users WHERE role = 'player' ORDER BY display_name: the
\* ids in that order.  Rows of equal display_name come in id order.
PlayerRows(conn) ==
  LET us  == conn.users
      ids == { id \in DOMAIN us : IsPlayerRow(us[id]) }
  IN Ranked(ids, { <<x, y>> \in ids \X ids :
       \/ TextLess(CodePoints(us[x].display_name), CodePoints(us[y].display_name))
       \/ us[x].display_name = us[y].display_name /\ x < y })

\* AND m.round_number <= ?  (only when up_to_round is given)
RoundFilter(row, up_to_round) ==
  IsNull(up_to_round) \/ row.round_number <= Val(up_to_round)

\* Mutant: matches that only hold a report are selected too, with the
\* report of the lowest player id as their score.
SelectedMatches_Reported(conn, up_to_round) ==
  LET ms  == conn.matches
      ids == { id \in DOMAIN ms :
                 /\ IsConfirmed(ms[id]) \/ RowsOf(conn.score_confirmations, id) # {}
                 /\ RoundFilter(ms[id], up_to_round) }
      ord == Ranked(ids, { <<x, y>> \in ids \X ids :
               \/ ms[x].round_number < ms[y].round_number
               \/ ms[x].round_number = ms[y].round_number /\ x < y })
  IN [k \in DOMAIN ord |->
        LET first == FirstByPlayer(RowsOf(conn.score_confirmations, ord[k])) IN
        [round_number     |-> ms[ord[k]].round_number,
         player1_id       |-> ms[ord[k]].player1_id,
         player2_id       |-> ms[ord[k]].player2_id,
         confirmed_score1 |-> IF IsConfirmed(ms[ord[k]])
                              THEN Val(ms[ord[k]].confirmed_score1) ELSE first.score1,
         confirmed_score2 |-> IF IsConfirmed(ms[ord[k]])
                              THEN Val(ms[ord[k]].confirmed_score2) ELSE first.score2]]

\* The match query of _standings: the confirmed matches the filter admits,
\* ORDER BY m.round_number, m.id.
SelectedMatches(conn, up_to_round) ==
  LET ms  == conn.matches
      ids == { id \in DOMAIN ms :
                 IsConfirmed(ms[id]) /\ RoundFilter(ms[id], up_to_round) }
      ord == Ranked(ids, { <<x, y>> \in ids \X ids :
               \/ ms[x].round_number < ms[y].round_number
               \/ ms[x].round_number = ms[y].round_number /\ x < y })
  IN [k \in DOMAIN ord |->
        [round_number     |-> ms[ord[k]].round_number,
         player1_id       |-> ms[ord[k]].player1_id,
         player2_id       |-> ms[ord[k]].player2_id,
         confirmed_score1 |-> Val(ms[ord[k]].confirmed_score1),
         confirmed_score2 |-> Val(ms[ord[k]].confirmed_score2)]]

\* The stats dict before any match is folded in.
ZeroStats(conn) ==
  LET us == conn.users
      players == PlayerRows(conn)
  IN [id \in { players[k] : k \in DOMAIN players } |->
        [player_id     |-> id,
         handle        |-> us[id].handle,
         display_name  |-> us[id].display_name,
         played        |-> 0,
         wins          |-> 0,
         draws         |-> 0,
         losses        |-> 0,
         goals_for     |-> 0,
         goals_against |-> 0,
         points        |-> 0,
         round_points  |-> 0]]

\* Mutant: round_points adds up every folded match.
CountsForRound_Always(match, up_to_round) == ~IsNull(up_to_round)

\* up_to_round is not None and int(match['round_number']) == up_to_round
CountsForRound(match, up_to_round) ==
  ~IsNull(up_to_round) /\ match.round_number = Val(up_to_round)

\* The body of the loop over the selected matches, for one match.  Both
\* players of a match are keys of stats: matches are only made of players.
FoldMatch(stats, match, up_to_round) ==
  LET score1 == match.confirmed_score1
      score2 == match.confirmed_score2
      award  == MatchPoints(score1, score2)
      rp     == IF CountsForRound(match, up_to_round) THEN award ELSE <<0, 0>>
  IN [stats EXCEPT
        ![match.player1_id] =
          [@ EXCEPT !.played        = @ + 1,
                    !.goals_for     = @ + score1,
                    !.goals_against = @ + score2,
                    !.points        = @ + award[1],
                    !.round_points  = @ + rp[1],
                    !.wins          = @ + (IF score1 > score2 THEN 1 ELSE 0),
                    !.losses        = @ + (IF score2 > score1 THEN 1 ELSE 0),
                    !.draws         = @ + (IF score1 = score2 THEN 1 ELSE 0)],
        ![match.player2_id] =
          [@ EXCEPT !.played        = @ + 1,
                    !.goals_for     = @ + score2,
                    !.goals_against = @ + score1,
                    !.points        = @ + award[2],
                    !.round_points  = @ + rp[2],
                    !.wins          = @ + (IF score2 > score1 THEN 1 ELSE 0),
                    !.losses        = @ + (IF score1 > score2 THEN 1 ELSE 0),
                    !.draws         = @ + (IF score1 = score2 THEN 1 ELSE 0)]]

RECURSIVE FoldMatches(_, _, _, _)
FoldMatches(stats, selected, k, up_to_round) ==
  IF k > Len(selected) THEN stats
  ELSE FoldMatches(FoldMatch(stats, selected[k], up_to_round), selected, k + 1,
                   up_to_round)

\* Mutant: names are compared as stored.
SortName_AsStored(row) == CodePoints(row.display_name)

\* str(row['display_name']).lower()
SortName(row) == TextLower(CodePoints(row.display_name))

\* The sort key of row a is smaller than that of row b: key is
\* (-points, -(goals_for - goals_against), -goals_for, lowered name).
SortsAhead(a, b) ==
  LET gda == a.goals_for - a.goals_against
      gdb == b.goals_for - b.goals_against
  IN \/ a.points > b.points
     \/ /\ a.points = b.points
        /\ \/ gda > gdb
           \/ /\ gda = gdb
              /\ \/ a.goals_for > b.goals_for
                 \/ /\ a.goals_for = b.goals_for
                    /\ TextLess(SortName(a), SortName(b))

\* _standings: sorted() is stable, so rows of equal key keep the order of
\* the stats dict, which is the order of the players query.
Standings(conn, up_to_round) ==
  LET players == PlayerRows(conn)
      index   == [id \in { players[k] : k \in DOMAIN players } |->
                    CHOOSE k \in DOMAIN players : players[k] = id]
      stats   == FoldMatches(ZeroStats(conn), SelectedMatches(conn, up_to_round), 1,
                             up_to_round)
      ordered == Ranked(DOMAIN stats, { <<x, y>> \in (DOMAIN stats) \X (DOMAIN stats) :
                   \/ SortsAhead(stats[x], stats[y])
                   \/ /\ ~SortsAhead(stats[y], stats[x])
                      /\ index[x] < index[y] })
  IN [position \in DOMAIN ordered |->
        LET row == stats[ordered[position]] IN
        [position        |-> position,
         player_id       |-> row.player_id,
         handle          |-> row.handle,
         display_name    |-> row.display_name,
         played          |-> row.played,
         wins            |-> row.wins,
         draws           |-> row.draws,
         losses          |-> row.losses,
         goals_for       |-> row.goals_for,
         goals_against   |-> row.goals_against,
         goal_difference |-> row.goals_for - row.goals_against,
         round_points    |-> row.round_points,
         points          |-> row.points]]

\* SELECT DISTINCT round_number FROM matches ORDER BY round_number
RoundNumbers(conn) ==
  LET numbers == { conn.matches[id].round_number : id \in DOMAIN conn.matches }
  IN Ranked(numbers, { <<x, y>> \in numbers \X numbers : x < y })

\* Mutant: the round's query also takes the rounds before it.
InRoundQuery_UpTo(row, round_number) == row.round_number <= round_number

\* WHERE round_number = ?
InRoundQuery(row, round_number) == row.round_number = round_number

\* The loop of _round_points over the confirmed matches of one round: what
\* it adds to totals[player_id].
RECURSIVE RoundTotal(_, _, _, _)
RoundTotal(conn, round_number, player_id, id) ==
  IF id \notin DOMAIN conn.matches THEN 0
  ELSE LET row == conn.matches[id]
           award == MatchPoints(Val(row.confirmed_score1), Val(row.confirmed_score2))
       IN (IF InRoundQuery(row, round_number) /\ IsConfirmed(row)
           THEN (IF row.player1_id = player_id THEN award[1] ELSE 0)
                + (IF row.player2_id = player_id THEN award[2] ELSE 0)
           ELSE 0)
          + RoundTotal(conn, round_number, player_id, id + 1)

\* One RoundPointsDto: rows in the order of the players query, then
\* points_rows.sort(key=(-points, display_name.lower())), which is stable.
RoundPointsOf(conn, round_number) ==
  LET players == PlayerRows(conn)
      rows == [k \in DOMAIN players |->
                 [player_id    |-> players[k],
                  display_name |-> conn.users[players[k]].display_name,
                  points       |-> RoundTotal(conn, round_number, players[k], 1)]]
      ordered == Ranked(DOMAIN rows, { <<x, y>> \in (DOMAIN rows) \X (DOMAIN rows) :
                   \/ rows[x].points > rows[y].points
                   \/ /\ rows[x].points = rows[y].points
                      /\ \/ TextLess(SortName(rows[x]), SortName(rows[y]))
                         \/ /\ ~TextLess(SortName(rows[y]), SortName(rows[x]))
                            /\ x < y })
  IN [round_number |-> round_number,
      points       |-> [k \in DOMAIN ordered |-> rows[ordered[k]]]]

\* _round_points
RoundPoints(conn) ==
  LET rounds == RoundNumbers(conn) IN
  [k \in DOMAIN rounds |-> RoundPointsOf(conn, rounds[k])]

\* Mutant: the latest round, whatever is confirmed.
CurrentRound_Latest(conn) ==
  LET ms == conn.matches IN
  IF DOMAIN ms = {} THEN Null
  ELSE Some(CHOOSE r \in { ms[id].round_number : id \in DOMAIN ms } :
              \A id \in DOMAIN ms : ms[id].round_number <= r)

\* _current_round: MIN(round_number) over the matches with a NULL confirmed
\* score, else MAX(round_number) over all matches, else None.
CurrentRound(conn) ==
  LET ms == conn.matches
      pending == { ms[id].round_number : id \in { i \in DOMAIN ms : ~IsConfirmed(ms[i]) } }
      all == { ms[id].round_number : id \in DOMAIN ms }
  IN IF pending # {} THEN Some(CHOOSE r \in pending : \A q \in pending : r <= q)
     ELSE IF all # {} THEN Some(CHOOSE r \in all : \A q \in all : q <= r)
     ELSE Null

\* _fetch_rounds: the MatchDtos grouped by round, rounds in ascending order.
FetchRounds(conn, user) ==
  LET dtos   == FetchMatches(conn.matches, conn.score_confirmations, user)
      rounds == RoundNumbers(conn)
  IN [k \in DOMAIN rounds |->
        LET here == { id \in DOMAIN dtos : dtos[id].round_number = rounds[k] }
            ids  == Ranked(here, { <<x, y>> \in here \X here : x < y })
        IN [round_number |-> rounds[k],
            is_complete  |-> \A j \in DOMAIN ids : dtos[ids[j]].status = "confirmed",
            matches      |-> [j \in DOMAIN ids |-> dtos[ids[j]]]]]

\* Mutant: the pending count also takes the rounds before.
PendingCount_UpTo(conn, round_number) ==
  Cardinality({ id \in DOMAIN conn.matches :
                  /\ conn.matches[id].round_number <= round_number
                  /\ ~IsConfirmed(conn.matches[id]) })

\* SELECT COUNT(*) FROM matches WHERE round_number = ? AND
\* (confirmed_score1 IS NULL OR confirmed_score2 IS NULL)
PendingCount(conn, round_number) ==
  Cardinality({ id \in DOMAIN conn.matches :
                  /\ conn.matches[id].round_number = round_number
                  /\ ~IsConfirmed(conn.matches[id]) })

\* _standings_by_round
StandingsByRound(conn) ==
  LET rounds == RoundNumbers(conn) IN
  [k \in DOMAIN rounds |->
     [round_number |-> rounds[k],
      is_complete  |-> PendingCount(conn, rounds[k]) = 0,
      standings    |-> Standings(conn, Some(rounds[k]))]]

\* ------------------------------------------------------------- handlers

\* What a step did: the request it served and what it answered.  before is
\* the status the match showed when a write was applied ("" otherwise).
Event(op, user, match_id, score, before, kind, detail, dto) ==
  [op |-> op, user |-> user, match |-> match_id, score |-> score,
   before |-> before, kind |-> kind, detail |-> detail, dto |-> dto]

Idle == [stage |-> "idle", user |-> Null, match |-> 0]

\* Mutant: the checks without the already-confirmed one.
Precheck_NoConflict(ms, user, match_id) ==
  IF IsNull(user)
    THEN [kind |-> "Unauthorized", detail |-> "Missing bearer token."]
  ELSE IF DemoUsers[Val(user)].role # "player"
    THEN [kind |-> "Forbidden", detail |-> "Only players can confirm scores."]
  ELSE IF match_id \notin DOMAIN ms
    THEN [kind |-> "NotFound", detail |-> "Match not found."]
  ELSE IF Val(user) \notin {ms[match_id].player1_id, ms[match_id].player2_id}
    THEN [kind |-> "Forbidden", detail |-> "You are not assigned to this match."]
  ELSE [kind |-> "", detail |-> ""]

\* Mutant: the checks without the participant one.
Precheck_AnyPlayer(ms, user, match_id) ==
  IF IsNull(user)
    THEN [kind |-> "Unauthorized", detail |-> "Missing bearer token."]
  ELSE IF DemoUsers[Val(user)].role # "player"
    THEN [kind |-> "Forbidden", detail |-> "Only players can confirm scores."]
  ELSE IF match_id \notin DOMAIN ms
    THEN [kind |-> "NotFound", detail |-> "Match not found."]
  ELSE IF IsConfirmed(ms[match_id])
    THEN [kind |-> "Conflict", detail |-> "Scores are already confirmed for this match."]
  ELSE [kind |-> "", detail |-> ""]

\* Mutant: the already-confirmed check ahead of the participant check.
Precheck_ConflictFirst(ms, user, match_id) ==
  IF IsNull(user)
    THEN [kind |-> "Unauthorized", detail |-> "Missing bearer token."]
  ELSE IF DemoUsers[Val(user)].role # "player"
    THEN [kind |-> "Forbidden", detail |-> "Only players can confirm scores."]
  ELSE IF match_id \notin DOMAIN ms
    THEN [kind |-> "NotFound", detail |-> "Match not found."]
  ELSE IF IsConfirmed(ms[match_id])
    THEN [kind |-> "Conflict", detail |-> "Scores are already confirmed for this match."]
  ELSE IF Val(user) \notin {ms[match_id].player1_id, ms[match_id].player2_id}
    THEN [kind |-> "Forbidden", detail |-> "You are not assigned to this match."]
  ELSE [kind |-> "", detail |-> ""]

\* The checks confirm_match_score makes before it writes, in the order of the
\* source; kind "" means the request goes on to the upsert.
Precheck(ms, user, match_id) ==
  IF IsNull(user)
    THEN [kind |-> "Unauthorized", detail |-> "Missing bearer token."]
  ELSE IF DemoUsers[Val(user)].role # "player"
    THEN [kind |-> "Forbidden", detail |-> "Only players can confirm scores."]
  ELSE IF match_id \notin DOMAIN ms
    THEN [kind |-> "NotFound", detail |-> "Match not found."]
  ELSE IF Val(user) \notin {ms[match_id].player1_id, ms[match_id].player2_id}
    THEN [kind |-> "Forbidden", detail |-> "You are not assigned to this match."]
  ELSE IF IsConfirmed(ms[match_id])
    THEN [kind |-> "Conflict", detail |-> "Scores are already confirmed for this match."]
  ELSE [kind |-> "", detail |-> ""]

Init ==
  /\ matches = SeedMatches
  /\ score_confirmations = {}
  /\ pc = [h \in Handlers |-> Idle]
  /\ last = Event("init", Null, 0, Null, "", "", "", Null)
  /\ submitted = [id \in DOMAIN SeedMatches |-> {}]
  /\ users = DemoUsers
  /\ sqlite_sequence = SeededSequence

\* confirm_match_score up to its write: _require_user, the role check and the
\* SELECT of the match row, which runs outside any transaction.  A request
\* that fails a check returns at once.
ConfirmRead(h, user, match_id) ==
  /\ pc[h].stage = "idle"
  /\ LET check == Precheck(matches, user, match_id) IN
     IF check.kind = ""
       THEN /\ pc' = [pc EXCEPT ![h] = [stage |-> "read", user |-> user, match |-> match_id]]
            /\ last' = Event("confirm_read", user, match_id, Null, "", "", "", Null)
       ELSE /\ pc' = pc
            /\ last' = Event("confirm_return", user, match_id, Null, "",
                             check.kind, check.detail, Null)
  /\ UNCHANGED <<matches, score_confirmations, submitted, users, sqlite_sequence>>

\* The write transaction: INSERT .. ON CONFLICT, _confirm_scores_if_consensus
\* and conn.commit().  SQLite admits one writer at a time and shows other
\* connections nothing before the commit, so the three run as one step.  The
\* payload is first used by the INSERT; it is drawn here.
ConfirmWrite(h, score1, score2) ==
  /\ pc[h].stage = "read"
  /\ LET m   == pc[h].match
         u   == Val(pc[h].user)
         txn == ConfirmTxn(matches, score_confirmations, m, u, score1, score2)
     IN /\ matches' = txn.matches
        /\ score_confirmations' = txn.score_confirmations
        /\ submitted' = [submitted EXCEPT ![m] = @ \cup {<<score1, score2>>}]
        /\ last' = Event("confirm_txn", pc[h].user, m, Some(<<score1, score2>>),
                         StatusValue(matches[m], DistinctConfirmations(score_confirmations, m)),
                         "", "", Null)
  /\ pc' = [pc EXCEPT ![h].stage = "committed"]
  /\ UNCHANGED <<users, sqlite_sequence>>

\* The SELECT after the commit and the MatchDto built from it.
ConfirmReturn(h) ==
  /\ pc[h].stage = "committed"
  /\ last' = Event("confirm_return", pc[h].user, pc[h].match, Null, "", "OK", "",
                   Some(BuildMatchDto(matches, score_confirmations, pc[h].match, pc[h].user)))
  /\ pc' = [pc EXCEPT ![h] = Idle]
  /\ UNCHANGED <<matches, score_confirmations, submitted, users, sqlite_sequence>>

\* GET /rounds: one SELECT over the committed tables.
GetRounds(user) ==
  /\ last' = Event("rounds", user, 0, Null, "", "OK", "",
                   Some(FetchMatches(matches, score_confirmations, user)))
  /\ UNCHANGED <<matches, score_confirmations, pc, submitted, users, sqlite_sequence>>

Next ==
  \/ \E h \in Handlers, user \in Principals, match_id \in RequestMatchIds :
       ConfirmRead(h, user, match_id)
  \/ \E h \in Handlers, pair \in ScorePairs : ConfirmWrite(h, pair[1], pair[2])
  \/ \E h \in Handlers : ConfirmReturn(h)
  \/ \E user \in ReaderPrincipals : GetRounds(user)

Spec == Init /\ [][Next]_vars

\* ------------------------------------- the same requests late in round 1

\* The result confirmed at table 2 of round 1.
LateResult == <<3, 1>>

\* The tables when the other match of round 1 is through: both players of
\* match 2 have reported LateResult and the match is confirmed with it.
InitLate ==
  /\ matches = [SeedMatches EXCEPT ![2].confirmed_score1 = Some(LateResult[1]),
                                   ![2].confirmed_score2 = Some(LateResult[2])]
  /\ score_confirmations =
       { [match_id |-> 2, player_id |-> p, score1 |-> LateResult[1], score2 |-> LateResult[2]] :
           p \in {SeedMatches[2].player1_id, SeedMatches[2].player2_id} }
  /\ pc = [h \in Handlers |-> Idle]
  /\ last = Event("init", Null, 0, Null, "", "", "", Null)
  /\ submitted = [id \in DOMAIN SeedMatches |-> IF id = 2 THEN {LateResult} ELSE {}]
  /\ users = DemoUsers
  /\ sqlite_sequence = SeededSequence

\* The requests of the two players still to report in round 1.
NextLate ==
  \/ \E h \in Handlers, match_id \in RequestMatchIds,
        p \in {SeedMatches[1].player1_id, SeedMatches[1].player2_id} :
       ConfirmRead(h, Some(p), match_id)
  \/ \E h \in Handlers, pair \in ScorePairs : ConfirmWrite(h, pair[1], pair[2])
  \/ \E h \in Handlers : ConfirmReturn(h)

SpecLate == InitLate /\ [][NextLate]_vars

\* ------------------------------------------- the fixture generator alone

\* Longest player list handed to _generate_round_robin.
MaxFixturePlayers == 5

\* Ordered lists of distinct player ids, the empty list included.
PlayerLists ==
  { s \in UNION { [1..n -> 1..MaxFixturePlayers] : n \in 0..MaxFixturePlayers } :
      \A i, j \in DOMAIN s : i # j => s[i] # s[j] }

\* A call of _generate_round_robin(player_ids) is pending.
InitFixtures ==
  /\ matches = SeedMatches
  /\ score_confirmations = {}
  /\ pc = [h \in Handlers |-> Idle]
  /\ submitted = [id \in DOMAIN SeedMatches |-> {}]
  /\ users = DemoUsers
  /\ sqlite_sequence = SeededSequence
  /\ \E player_ids \in PlayerLists :
       last = Event("fixtures_call", Null, 0, Null, "", "", "", Some(player_ids))

\* _generate_round_robin runs and returns its rounds.
GenerateFixtures ==
  /\ last.op = "fixtures_call"
  /\ last' = Event("fixtures", Null, 0, Null, "", "OK", "",
                   Some([player_ids |-> Val(last.dto),
                         rounds     |-> GenerateRoundRobin(Val(last.dto))]))
  /\ UNCHANGED <<matches, score_confirmations, pc, submitted, users, sqlite_sequence>>

\* The INSERT loop of _seed_demo_data over the rounds returned.
InsertFixtures ==
  /\ last.op = "fixtures"
  /\ last' = Event("fixture_rows", Null, 0, Null, "", "OK", "",
                   Some([player_ids |-> Val(last.dto).player_ids,
                         rounds     |-> Val(last.dto).rounds,
                         rows       |-> SeedRows(Val(last.dto).rounds, 1, 1)]))
  /\ UNCHANGED <<matches, score_confirmations, pc, submitted, users, sqlite_sequence>>

NextFixtures == GenerateFixtures \/ InsertFixtures

SpecFixtures == InitFixtures /\ [][NextFixtures]_vars

\* ------------------------------------------------- the read endpoints

\* The results the confirmed matches of the database states below hold: a
\* win of player 1, a draw and a win of player 2.
ResultPairs == { <<3, 1>>, <<1, 1>>, <<0, 2>> }

\* Users POST /auth/register has added after the seed, in order of arrival.
MaxRegistered == 1

Registered ==
  << [handle |-> "bobby", display_name |-> "bob adams",    role |-> "player"],
     [handle |-> "guest", display_name |-> "Aaron Guest",  role |-> "viewer"],
     [handle |-> "zed",   display_name |-> "alice mercer", role |-> "player"] >>

\* The round filters GET /standings is asked with: none, every seeded round
\* and one round past the last.
RoundFilters ==
  {Null} \cup { Some(r) : r \in 1..(Len(GenerateRoundRobin(SeedPlayerIds)) + 1) }

\* The database after the seed, some registrations and some confirmations:
\* outcome[id] is the pair both players of match id agreed on, if any.
PlayedDb(registered, outcome) ==
  [users   |-> DemoUsers \o SubSeq(Registered, 1, registered),
   matches |-> [id \in DOMAIN SeedMatches |->
                  IF IsNull(outcome[id]) THEN SeedMatches[id]
                  ELSE [SeedMatches[id] EXCEPT
                          !.confirmed_score1 = Some(Val(outcome[id])[1]),
                          !.confirmed_score2 = Some(Val(outcome[id])[2])]],
   score_confirmations |->
     UNION { { [match_id |-> id, player_id |-> p,
                score1 |-> Val(outcome[id])[1], score2 |-> Val(outcome[id])[2]] :
               p \in {SeedMatches[id].player1_id, SeedMatches[id].player2_id} } :
             id \in { i \in DOMAIN SeedMatches : ~IsNull(outcome[i]) } }]

\* The database between the DELETEs of a forced seed and its INSERTs.
EmptiedDb == [users |-> <<>>, matches |-> <<>>, score_confirmations |-> {}]

\* One read request is served from any database the writes can leave.
InitRead ==
  /\ \E db \in {EmptiedDb} \cup
               { PlayedDb(registered, outcome) :
                   registered \in 0..MaxRegistered,
                   outcome \in [DOMAIN SeedMatches ->
                                  {Null} \cup { Some(pair) : pair \in ResultPairs }] } :
       /\ users = db.users
       /\ sqlite_sequence = [users   |-> IF db.users = <<>> THEN Len(DemoUsers)
                                          ELSE Len(db.users),
                             matches |-> Len(SeedMatches)]
       /\ matches = db.matches
       /\ score_confirmations = db.score_confirmations
       /\ submitted = [id \in DOMAIN SeedMatches |->
                         IF id \in DOMAIN db.matches /\ IsConfirmed(db.matches[id])
                         THEN {<<Val(db.matches[id].confirmed_score1),
                                 Val(db.matches[id].confirmed_score2)>>}
                         ELSE {}]
  /\ pc = [h \in Handlers |-> Idle]
  /\ last = Event("init", Null, 0, Null, "", "", "", Null)

\* GET /standings?round=
GetStandings(round) ==
  /\ last.op = "init"
  /\ last' = Event("standings", Null, 0, Null, "", "OK", "",
                   Some([round |-> round,
                         rows  |-> Standings(DbOf(users, matches, score_confirmations),
                                             round)]))
  /\ UNCHANGED <<matches, score_confirmations, pc, submitted, users, sqlite_sequence>>

\* GET /round-points
GetRoundPoints ==
  /\ last.op = "init"
  /\ last' = Event("round_points", Null, 0, Null, "", "OK", "",
                   Some(RoundPoints(DbOf(users, matches, score_confirmations))))
  /\ UNCHANGED <<matches, score_confirmations, pc, submitted, users, sqlite_sequence>>

\* GET /live; a token no session row holds makes the caller anonymous.
GetLive(user) ==
  /\ last.op = "init"
  /\ user \in {Null} \cup { Some(id) : id \in DOMAIN users }
  /\ LET conn == DbOf(users, matches, score_confirmations) IN
     last' = Event("live", user, 0, Null, "", "OK", "",
                   Some([current_round |-> CurrentRound(conn),
                         rounds        |-> FetchRounds(conn, user),
                         standings     |-> Standings(conn, Null)]))
  /\ UNCHANGED <<matches, score_confirmations, pc, submitted, users, sqlite_sequence>>

\* GET /standings/by-round
GetStandingsByRound ==
  /\ last.op = "init"
  /\ last' = Event("standings_by_round", Null, 0, Null, "", "OK", "",
                   Some(StandingsByRound(DbOf(users, matches, score_confirmations))))
  /\ UNCHANGED <<matches, score_confirmations, pc, submitted, users, sqlite_sequence>>

NextRead ==
  \/ \E round \in RoundFilters : GetStandings(round)
  \/ GetRoundPoints
  \/ GetStandingsByRound
  \/ \E user \in ReaderPrincipals : GetLive(user)

SpecRead == InitRead /\ [][NextRead]_vars

\* ------------------------------------------- submissions one at a time

\* The matches reported on: the round-1 and the round-2 match of player 1.
SubmitMatchIds == {1, 3}

\* The players of those matches.
Submitters ==
  UNION { {SeedMatches[id].player1_id, SeedMatches[id].player2_id} :
            id \in SubmitMatchIds }

\* POST /matches/{match_id}/confirm served without another request in
\* between: the checks, the write transaction and the answer in one step.
Submit(user, match_id, score1, score2) ==
  LET check == Precheck(matches, user, match_id)
      txn   == ConfirmTxn(matches, score_confirmations, match_id, Val(user),
                          score1, score2)
  IN IF check.kind # ""
     THEN /\ last' = Event("submit", user, match_id, Null, "", check.kind,
                           check.detail, Null)
          /\ UNCHANGED <<matches, score_confirmations, pc, submitted, users, sqlite_sequence>>
     ELSE /\ matches' = txn.matches
          /\ score_confirmations' = txn.score_confirmations
          /\ submitted' = [submitted EXCEPT ![match_id] = @ \cup {<<score1, score2>>}]
          /\ last' = Event("submit", user, match_id, Null, "", "OK", "", Null)
          /\ UNCHANGED <<pc, users, sqlite_sequence>>

NextSubmit ==
  \E user \in { Some(p) : p \in Submitters }, match_id \in SubmitMatchIds,
     pair \in ScorePairs :
    Submit(user, match_id, pair[1], pair[2])

SpecSubmit == Init /\ [][NextSubmit]_vars

\* ------------------------------------------------------ POST /setup/seed

\* Seeds that insert rows over the life of the database file, the one at
\* start-up included.
MaxSeeds == 2

\* The tables a seed works on, with the AUTOINCREMENT counters.
SeedDbOf(us, ms, confs, seq) ==
  [users |-> us, matches |-> ms, score_confirmations |-> confs, sqlite_sequence |-> seq]

\* force: the DELETEs and their commit.  Rows go, sqlite_sequence stays.
\* (sessions and social_identities are emptied too; the model has neither.)
DeleteAll(db) ==
  [db EXCEPT !.users = <<>>, !.matches = <<>>, !.score_confirmations = {}]

\* The INSERTs of _seed_demo_data: demo_users, then one match row per pair
\* of the schedule of the player ids; every new row gets the next id of its
\* table.
SeedInsert(db) ==
  LET n          == db.sqlite_sequence.users
      us         == [id \in DOMAIN db.users \cup ((n + 1)..(n + Len(DemoUsers))) |->
                       IF id \in DOMAIN db.users THEN db.users[id] ELSE DemoUsers[id - n]]
      ids        == { id \in DOMAIN us : us[id].role = "player" }
      player_ids == Ranked(ids, { <<x, y>> \in ids \X ids : x < y })
      rounds     == GenerateRoundRobin(player_ids)
      rows       == SeedRows(rounds, 1, 1)
      m          == db.sqlite_sequence.matches
  IN [db |-> [users   |-> us,
              matches |-> [id \in DOMAIN db.matches \cup ((m + 1)..(m + Len(rows))) |->
                             IF id \in DOMAIN db.matches THEN db.matches[id]
                             ELSE rows[id - m]],
              score_confirmations |-> db.score_confirmations,
              sqlite_sequence |-> [users |-> n + Len(DemoUsers), matches |-> m + Len(rows)]],
      details |-> [players |-> Len(player_ids), matches |-> Len(rows), seeded |-> 1]]

\* Mutant: the seed does not look whether users exist.
SeedDemoData_NoExistingCheck(db) == SeedInsert(db)

\* _seed_demo_data past its force branch: the tables it leaves and the dict
\* it returns.
SeedDemoData(db) ==
  IF DOMAIN db.users # {}
    THEN [db |-> db,
          details |-> [players |-> Cardinality({ id \in DOMAIN db.users :
                                                   db.users[id].role = "player" }),
                       matches |-> Cardinality(DOMAIN db.matches),
                       seeded  |-> 0]]
    ELSE SeedInsert(db)

\* The seed is called on a database that was seeded at start-up and in which
\* users have registered and matches have been confirmed.
InitSeed ==
  /\ \E registered \in 0..MaxRegistered,
        outcome \in [DOMAIN SeedMatches -> {Null} \cup { Some(pair) : pair \in ResultPairs }] :
       LET db == PlayedDb(registered, outcome) IN
       /\ users = db.users
       /\ matches = db.matches
       /\ score_confirmations = db.score_confirmations
       /\ sqlite_sequence = [users |-> Len(db.users), matches |-> Len(SeedMatches)]
       /\ submitted = [id \in DOMAIN SeedMatches |->
                         IF IsNull(outcome[id]) THEN {} ELSE {Val(outcome[id])}]
  /\ pc = [h \in Handlers |-> Idle]
  /\ last = Event("init", Null, 0, Null, "", "", "", Null)

\* The tables after a seed step, and the reports history of the matches
\* they hold.
SeedLeaves(db) ==
  /\ users' = db.users
  /\ matches' = db.matches
  /\ score_confirmations' = db.score_confirmations
  /\ sqlite_sequence' = db.sqlite_sequence
  /\ submitted' = [id \in DOMAIN db.matches |->
                     IF id \in DOMAIN matches THEN submitted[id] ELSE {}]

\* POST /setup/seed (force=false): the count of users and, on empty tables,
\* the INSERTs and the commit.
SeedPlain ==
  LET out == SeedDemoData(SeedDbOf(users, matches, score_confirmations, sqlite_sequence))
  IN /\ SeedLeaves(out.db)
     /\ last' = Event("seed", Null, 0, Null, "", "OK", "", Some(out.details))
     /\ UNCHANGED pc

\* POST /setup/seed?force=true, first half: the DELETEs are committed on
\* their own, before the seed looks at the users table.
SeedForceDelete(h) ==
  /\ pc[h].stage = "idle"
  /\ sqlite_sequence.matches < MaxSeeds * Len(SeedMatches)
  /\ SeedLeaves(DeleteAll(SeedDbOf(users, matches, score_confirmations, sqlite_sequence)))
  /\ pc' = [pc EXCEPT ![h].stage = "seed_deleted"]
  /\ last' = Event("seed_delete", Null, 0, Null, "", "", "force", Null)

\* POST /setup/seed?force=true, second half: the same steps as without
\* force, on whatever the tables hold by then.
SeedForceFinish(h) ==
  /\ pc[h].stage = "seed_deleted"
  /\ LET out == SeedDemoData(SeedDbOf(users, matches, score_confirmations, sqlite_sequence))
     IN /\ SeedLeaves(out.db)
        /\ last' = Event("seed", Null, 0, Null, "", "OK", "force", Some(out.details))
  /\ pc' = [pc EXCEPT ![h] = Idle]

NextSeed ==
  \/ SeedPlain
  \/ \E h \in Handlers : SeedForceDelete(h)
  \/ \E h \in Handlers : SeedForceFinish(h)

SpecSeed == InitSeed /\ [][NextSeed]_vars

\* ---------------------------------------------- the points function alone

\* A call of _match_points(score1, score2) is pending, for any two scores
\* ScoreConfirmRequest lets through.
InitPoints ==
  /\ matches = SeedMatches
  /\ score_confirmations = {}
  /\ pc = [h \in Handlers |-> Idle]
  /\ submitted = [id \in DOMAIN SeedMatches |-> {}]
  /\ users = DemoUsers
  /\ sqlite_sequence = SeededSequence
  /\ \E score1, score2 \in 0..MaxScore :
       last = Event("points_call", Null, 0, Some(<<score1, score2>>), "", "", "", Null)

\* _match_points runs and returns its award.
ComputePoints ==
  /\ last.op = "points_call"
  /\ last' = Event("points", Null, 0, last.score, "", "OK", "",
                   Some(MatchPoints(Val(last.score)[1], Val(last.score)[2])))
  /\ UNCHANGED <<matches, score_confirmations, pc, submitted, users, sqlite_sequence>>

NextPoints == ComputePoints

SpecPoints == InitPoints /\ [][NextPoints]_vars

\* ------------------------------------------------------ claims: vocabulary

\* The score pairs stored for (match, player): empty, or one pair.
Reports(confs, match_id, player_id) ==
  { <<c.score1, c.score2>> : c \in { d \in RowsOf(confs, match_id) : d.player_id = player_id } }

ConfirmedPair(row) == <<Val(row.confirmed_score1), Val(row.confirmed_score2)>>

Participants(row) == {row.player1_id, row.player2_id}

\* Both participants have a stored report and the two reports are this pair.
BothReport(ms, confs, match_id, pair) ==
  \A p \in Participants(ms[match_id]) : Reports(confs, match_id, p) = {pair}

\* Both participants have a stored report and the two reports are equal.
ReportsAgree(ms, confs, match_id) ==
  \E pair \in UNION { Reports(confs, match_id, p) : p \in Participants(ms[match_id]) } :
    BothReport(ms, confs, match_id, pair)

\* This step applied the write of a submitConfirmation.
WroteNow == last'.op = "confirm_txn"

\* ------------------------------------------------------------------- C1

\* C1: once both confirmed score fields of a match are non-null, no step
\* (whoever submits, whatever the pair) changes either field.
C1_ConfirmedIsWriteOnce ==
  [][\A id \in DOMAIN matches :
       IsConfirmed(matches[id]) =>
         /\ matches'[id].confirmed_score1 = matches[id].confirmed_score1
         /\ matches'[id].confirmed_score2 = matches[id].confirmed_score2]_vars

\* A write was applied to a match that was already confirmed, storing a pair
\* other than the confirmed one.
C1_Witness ==
  /\ last.op = "confirm_txn"
  /\ last.before = "confirmed"
  /\ IsConfirmed(matches[last.match])
  /\ Val(last.score) # ConfirmedPair(matches[last.match])

\* ------------------------------------------------------------------- C2

\* C2: when a submission is written to a match that was unconfirmed, the match
\* is confirmed afterwards iff both participants have a stored report and the
\* two are equal; the confirmed pair is then that common pair; and if both
\* have a report and the two differ the match is unconfirmed and its reported
\* status is disputed.
C2_ConsensusIffEqualReports ==
  [][(WroteNow /\ ~IsConfirmed(matches[last'.match])) =>
       LET m == last'.match
           agree == ReportsAgree(matches', score_confirmations', m)
           both  == \A p \in Participants(matches'[m]) :
                       Reports(score_confirmations', m, p) # {}
       IN /\ IsConfirmed(matches'[m]) <=> agree
          /\ IsConfirmed(matches'[m]) =>
               BothReport(matches', score_confirmations', m, ConfirmedPair(matches'[m]))
          /\ (both /\ ~agree) =>
               /\ ~IsConfirmed(matches'[m])
               /\ BuildMatchDto(matches', score_confirmations', m, last'.user).status
                    = "disputed"]_vars

\* A write to an unconfirmed match has just confirmed it with the pair sent.
C2_Witness ==
  /\ last.op = "confirm_txn"
  /\ last.before # "confirmed"
  /\ IsConfirmed(matches[last.match])
  /\ ConfirmedPair(matches[last.match]) = Val(last.score)
  /\ BothReport(matches, score_confirmations, last.match, Val(last.score))

\* ------------------------------------------------------------------- C3

\* A step that serves the start of a submitConfirmation: it either lets the
\* request through to its write or answers with an error.
CalledNow ==
  \/ last'.op = "confirm_read"
  \/ last'.op = "confirm_return" /\ last'.kind # "OK"

\* C3: a submitConfirmation by a participant of a match that is confirmed when
\* the handler reads it is answered Conflict, and writes nothing.  (No pair
\* has been looked at by then, so the answer is the same for every pair.)
C3_ConfirmedMatchConflicts ==
  [][(/\ CalledNow
      /\ last'.match \in DOMAIN matches
      /\ IsConfirmed(matches[last'.match])
      /\ ~IsNull(last'.user)
      /\ DemoUsers[Val(last'.user)].role = "player"
      /\ Val(last'.user) \in Participants(matches[last'.match]))
     => /\ last'.op = "confirm_return"
        /\ last'.kind = "Conflict"
        /\ UNCHANGED <<matches, score_confirmations, pc>>]_vars

\* A participant of a confirmed match has just been answered Conflict.
C3_Witness ==
  /\ last.op = "confirm_return"
  /\ last.kind = "Conflict"
  /\ IsConfirmed(matches[last.match])
  /\ Val(last.user) \in Participants(matches[last.match])

\* ------------------------------------------------------------------- C4

\* C4: with submissions and reads interleaved in any way, no committed state
\* has both participants' reports equal while the match is unconfirmed, and no
\* GET /rounds answer shows a match with two reports, one distinct pair and
\* null confirmed scores (two reports and status pending).
C4_NoPartialConsensusVisible ==
  /\ \A id \in DOMAIN matches :
       ReportsAgree(matches, score_confirmations, id) => IsConfirmed(matches[id])
  /\ last.op = "rounds" =>
       \A id \in DOMAIN Val(last.dto) :
         LET dto == Val(last.dto)[id] IN
         /\ ~(dto.confirmations >= 2 /\ dto.status = "pending")
         /\ dto.status = "confirmed"
              <=> (~IsNull(dto.confirmed_score1) /\ ~IsNull(dto.confirmed_score2))

\* A read that ran while a submission was between its check and its write saw
\* a match with two reports, confirmed.
C4_Witness ==
  /\ last.op = "rounds"
  /\ \E id \in DOMAIN Val(last.dto) :
       /\ Val(last.dto)[id].confirmations = 2
       /\ Val(last.dto)[id].status = "confirmed"
       /\ \E h \in Handlers : pc[h].stage = "read" /\ pc[h].match = id

\* ------------------------------------------------------------------- C5

RowCount(confs, match_id, player_id) ==
  Cardinality({ c \in RowsOf(confs, match_id) : c.player_id = player_id })

OtherRows(confs, match_id, player_id) ==
  { c \in confs : ~(c.match_id = match_id /\ c.player_id = player_id) }

\* Handler h applies its write in this step while another request of the same
\* player for the same match is in flight.
OverlappingWrite(h) ==
  /\ pc[h].stage = "read"
  /\ pc'[h].stage = "committed"
  /\ \E g \in Handlers \ {h} :
       /\ pc[g].stage \in {"read", "committed"}
       /\ pc[g].user = pc[h].user
       /\ pc[g].match = pc[h].match

\* C5: when a player's write is applied while another submission of the same
\* player for the same match is in flight, there is afterwards exactly one row
\* for (match, player), it holds the pair of this (latest) write, the other
\* rows are untouched, and the confirmed scores are those of running the
\* submissions one after the other in the order of their writes: unchanged if
\* the match was confirmed (the later call would get Conflict), else set to
\* this pair iff the opponent's stored report equals it.
C5_NoLostUpdate ==
  [][\A h \in Handlers : OverlappingWrite(h) =>
       LET m == pc[h].match
           u == Val(pc[h].user)
           s == Val(last'.score)
           opp == Participants(matches[m]) \ {u}
       IN /\ RowCount(score_confirmations', m, u) = 1
          /\ Reports(score_confirmations', m, u) = {s}
          /\ OtherRows(score_confirmations', m, u) = OtherRows(score_confirmations, m, u)
          /\ IF IsConfirmed(matches[m])
               THEN matches' = matches
               ELSE /\ IsConfirmed(matches'[m])
                         <=> \A o \in opp : Reports(score_confirmations, m, o) = {s}
                    /\ IsConfirmed(matches'[m]) => ConfirmedPair(matches'[m]) = s]_vars

\* Two requests of one player for one match have both written, the match has
\* been sent two different pairs, and the player has one row.
C5_Witness ==
  /\ last.op = "confirm_txn"
  /\ \E h \in Handlers, g \in Handlers :
       /\ h # g
       /\ pc[h].stage = "committed" /\ pc[g].stage = "committed"
       /\ pc[h].user = pc[g].user /\ pc[h].match = pc[g].match
       /\ pc[h].user = last.user
       /\ RowCount(score_confirmations, pc[h].match, Val(pc[h].user)) = 1
       /\ Cardinality(submitted[pc[h].match]) >= 2

\* ------------------------------------------------------------------- C6

ErrorKinds == {"Unauthorized", "Forbidden", "NotFound", "Conflict"}

\* C6: a submitConfirmation answered Unauthorized, Forbidden, NotFound or
\* Conflict changes no match row and no confirmation row; no other error is
\* answered; and a write stores the submitted pair and applies the consensus
\* check with it: the committed state never has the new row without the
\* check's result.
C6_AllOrNothing ==
  [][/\ (last'.op = "confirm_return" /\ last'.kind # "OK") =>
          /\ last'.kind \in ErrorKinds
          /\ UNCHANGED <<matches, score_confirmations>>
     /\ last'.op = "confirm_read" => UNCHANGED <<matches, score_confirmations>>
     /\ WroteNow =>
          LET m == last'.match
              u == Val(last'.user)
          IN /\ Reports(score_confirmations', m, u) = {Val(last'.score)}
             /\ ReportsAgree(matches', score_confirmations', m)
                  => IsConfirmed(matches'[m])]_vars

\* A request was refused with rows already stored.
C6_Witness ==
  /\ last.op = "confirm_return"
  /\ last.kind \in ErrorKinds
  /\ score_confirmations # {}

\* ------------------------------------------------------------------- C7

\* C7: a submitConfirmation by a principal whose role is not player, or who is
\* not a participant of the (existing) match, is answered Forbidden; every
\* request that got past the checks and every confirmation row belongs to a
\* participant of its match.
C7_OnlyParticipantsReport ==
  /\ (/\ last.op \in {"confirm_read", "confirm_return"}
      /\ ~IsNull(last.user)
      /\ \/ DemoUsers[Val(last.user)].role # "player"
         \/ /\ last.match \in DOMAIN matches
            /\ Val(last.user) \notin Participants(matches[last.match]))
     => (last.op = "confirm_return" /\ last.kind = "Forbidden")
  /\ \A h \in Handlers : pc[h].stage # "idle" =>
       /\ pc[h].match \in DOMAIN matches
       /\ Val(pc[h].user) \in Participants(matches[pc[h].match])
  /\ \A c \in score_confirmations :
       /\ c.match_id \in DOMAIN matches
       /\ c.player_id \in Participants(matches[c.match_id])

\* A player who is not in the match has been answered Forbidden while the
\* match holds reports.
C7_Witness ==
  /\ last.op = "confirm_return"
  /\ last.kind = "Forbidden"
  /\ DemoUsers[Val(last.user)].role = "player"
  /\ RowsOf(score_confirmations, last.match) # {}

\* ------------------------------------------------------------------- C8

\* C8: there is at most one confirmation row per (match, player), so at most
\* two per match; and a write by a player who already has a row, on a match
\* not yet confirmed, leaves that player one row holding the new pair and the
\* other rows as they were.
C8_OneRowPerPlayer ==
  /\ [](\A id \in DOMAIN matches :
          /\ \A p \in UserIds : RowCount(score_confirmations, id, p) <= 1
          /\ Cardinality(RowsOf(score_confirmations, id)) <= 2)
  /\ [][(/\ WroteNow
         /\ ~IsConfirmed(matches[last'.match])
         /\ RowCount(score_confirmations, last'.match, Val(last'.user)) >= 1)
        => LET m == last'.match
               u == Val(last'.user)
           IN /\ RowCount(score_confirmations', m, u) = 1
              /\ Reports(score_confirmations', m, u) = {Val(last'.score)}
              /\ OtherRows(score_confirmations', m, u)
                   = OtherRows(score_confirmations, m, u)]_vars

\* A player with a stored report has resubmitted on a disputed match, which
\* still holds two rows.
C8_Witness ==
  /\ last.op = "confirm_txn"
  /\ last.before = "disputed"
  /\ Cardinality(RowsOf(score_confirmations, last.match)) = 2
  /\ Reports(score_confirmations, last.match, Val(last.user)) = {Val(last.score)}

\* ------------------------------------------------------------------- C9

\* The status GET /rounds reports for a match in this state.
ReportedStatus(id) == FetchMatches(matches, score_confirmations, Null)[id].status

\* The distinct score pairs the rows of a match hold now.
StoredPairs(id) == { <<c.score1, c.score2>> : c \in RowsOf(score_confirmations, id) }

\* C9 as claimed: confirmed iff both confirmed fields are non-null; disputed
\* iff at least two distinct pairs have been submitted for the match and it is
\* not confirmed; pending otherwise.
C9_StatusBySubmittedPairs ==
  \A id \in DOMAIN matches :
    ReportedStatus(id) =
      IF IsConfirmed(matches[id]) THEN "confirmed"
      ELSE IF Cardinality(submitted[id]) >= 2 THEN "disputed"
      ELSE "pending"

\* C9 as amended: confirmed iff both confirmed fields are non-null; disputed
\* iff the rows now stored for the match hold at least two distinct pairs and
\* it is not confirmed; pending otherwise.  A pair that a resubmission has
\* overwritten does not count.  The same holds of every status in a
\* GET /rounds answer.
C9_StatusByStoredPairs ==
  /\ \A id \in DOMAIN matches :
       ReportedStatus(id) =
         IF ~IsNull(matches[id].confirmed_score1) /\ ~IsNull(matches[id].confirmed_score2)
           THEN "confirmed"
         ELSE IF Cardinality(StoredPairs(id)) >= 2 THEN "disputed"
         ELSE "pending"
  /\ last.op = "rounds" =>
       \A id \in DOMAIN matches : Val(last.dto)[id].status = ReportedStatus(id)

\* One participant has sent two different pairs, the other none: the match is
\* reported pending.
C9_Witness ==
  \E id \in DOMAIN matches :
    /\ Cardinality(submitted[id]) >= 2
    /\ Cardinality(RowsOf(score_confirmations, id)) = 1
    /\ ReportedStatus(id) = "pending"
    /\ last.op = "rounds"

\* ------------------------------------------------------------------- C10

\* C10: a write to a disputed match whose pair equals the opponent's stored
\* pair confirms the match with that pair; and a match becomes confirmed in no
\* other way than by a write after which both participants' stored reports
\* equal the pair written, so participants who never store equal pairs never
\* get a confirmed match.
C10_DisputeRecoversByResubmission ==
  [][/\ (WroteNow /\ last'.before = "disputed") =>
          LET m == last'.match
              s == Val(last'.score)
              opp == Participants(matches[m]) \ {Val(last'.user)}
          IN (\A o \in opp : Reports(score_confirmations, m, o) = {s}) =>
               /\ IsConfirmed(matches'[m])
               /\ ConfirmedPair(matches'[m]) = s
     /\ \A id \in DOMAIN matches :
          (~IsConfirmed(matches[id]) /\ IsConfirmed(matches'[id])) =>
            /\ WroteNow
            /\ last'.match = id
            /\ ConfirmedPair(matches'[id]) = Val(last'.score)
            /\ BothReport(matches', score_confirmations', id, Val(last'.score))]_vars

\* A resubmission to a disputed match has confirmed it with the pair sent.
C10_Witness ==
  /\ last.op = "confirm_txn"
  /\ last.before = "disputed"
  /\ IsConfirmed(matches[last.match])
  /\ ConfirmedPair(matches[last.match]) = Val(last.score)

\* ---------------------------------------------- claims on the generator

FixturesDone == last.op = "fixtures"

FxIds == Val(last.dto).player_ids

FxRounds == Val(last.dto).rounds

IdSet(player_ids) == { player_ids[k] : k \in DOMAIN player_ids }

\* The players a round seats.
Seated(round) == UNION { {round[t][1], round[t][2]} : t \in DOMAIN round }

\* How many pairings of the schedule put a and b at one table.
PairCount(rounds, a, b) ==
  Cardinality({ rt \in UNION { {r} \X DOMAIN rounds[r] : r \in DOMAIN rounds } :
                  {rounds[rt[1]][rt[2]][1], rounds[rt[1]][rt[2]][2]} = {a, b} })

EveryPairOnce(player_ids, rounds) ==
  \A a, b \in IdSet(player_ids) : a # b => PairCount(rounds, a, b) = 1

\* C11 as stated, for every even size from 0 on: N - 1 rounds of N / 2 pairs,
\* every unordered pair of players exactly once.
C11_EvenScheduleAnySize ==
  (FixturesDone /\ Len(FxIds) % 2 = 0) =>
    /\ Len(FxRounds) = Len(FxIds) - 1
    /\ \A r \in DOMAIN FxRounds : Len(FxRounds[r]) = Len(FxIds) \div 2
    /\ EveryPairOnce(FxIds, FxRounds)

\* C11: an even-sized list of N >= 2 distinct ids yields exactly N - 1 rounds,
\* each of exactly N / 2 pairs, and every unordered pair of distinct players
\* sits together in exactly one pairing; the empty list yields no round.
C11_EvenSchedule ==
  (FixturesDone /\ Len(FxIds) % 2 = 0) =>
    IF Len(FxIds) = 0 THEN FxRounds = <<>>
    ELSE /\ Len(FxRounds) = Len(FxIds) - 1
         /\ \A r \in DOMAIN FxRounds : Len(FxRounds[r]) = Len(FxIds) \div 2
         /\ EveryPairOnce(FxIds, FxRounds)

C11_Witness ==
  /\ FixturesDone
  /\ Len(FxIds) = 4
  /\ Len(FxRounds) = 3
  /\ FxIds[1] > FxIds[2]

\* C12: an odd-sized list of N distinct ids yields exactly N rounds, each of
\* exactly (N - 1) / 2 pairs; every player is absent from exactly one round
\* and every unordered pair of distinct players sits together exactly once.
C12_OddSchedule ==
  (FixturesDone /\ Len(FxIds) % 2 = 1) =>
    /\ Len(FxRounds) = Len(FxIds)
    /\ \A r \in DOMAIN FxRounds : Len(FxRounds[r]) = (Len(FxIds) - 1) \div 2
    /\ \A p \in IdSet(FxIds) :
         Cardinality({ r \in DOMAIN FxRounds : p \notin Seated(FxRounds[r]) }) = 1
    /\ EveryPairOnce(FxIds, FxRounds)

C12_Witness ==
  /\ FixturesDone
  /\ Len(FxIds) = 5
  /\ Len(FxRounds) = 5
  /\ \E r \in DOMAIN FxRounds : FxIds[1] \notin Seated(FxRounds[r])

\* The circle method in closed form.  The list is the input plus one bye
\* slot when its size is odd; seats and rounds count from 0.  Seat 0 always
\* holds the first player; after r rotations seat k >= 1 holds the entry
\* that started at seat ((k - 1 - r) mod (count - 1)) + 1.
CircleList(player_ids) ==
  IF Len(player_ids) % 2 = 1
  THEN [k \in 1..(Len(player_ids) + 1) |->
          IF k <= Len(player_ids) THEN Some(player_ids[k]) ELSE Null]
  ELSE [k \in 1..Len(player_ids) |-> Some(player_ids[k])]

CircleSeat(list, r, k) ==
  IF k = 0 THEN list[1]
  ELSE list[((k - 1 - r) % (Len(list) - 1)) + 2]

\* Seats i with a real pairing in round r (no bye at either end).
CircleTables(list, r) ==
  { i \in 0..(Len(list) \div 2 - 1) :
      /\ ~IsNull(CircleSeat(list, r, i))
      /\ ~IsNull(CircleSeat(list, r, Len(list) - 1 - i)) }

CirclePair(list, r, i) ==
  LET left  == Val(CircleSeat(list, r, i))
      right == Val(CircleSeat(list, r, Len(list) - 1 - i))
  IN IF i = 0 /\ r % 2 = 0 THEN <<right, left>> ELSE <<left, right>>

\* C13: the schedule is the circle method's: the first player keeps seat 0,
\* the others rotate [seat 0, last seat, seat 1 .. seat last-1] after each
\* round, seat i meets seat count-1-i, pairings with the bye are dropped, the
\* pair of seat 0 is written (right, left) in even 0-based rounds and
\* (left, right) in odd ones, every other pair (left, right), in seat order.
C13_CircleMethod ==
  FixturesDone =>
    LET list == CircleList(FxIds) IN
    /\ Len(FxRounds) = (IF Len(list) = 0 THEN 0 ELSE Len(list) - 1)
    /\ \A r \in DOMAIN FxRounds :
         LET tables == CircleTables(list, r - 1) IN
         /\ Len(FxRounds[r]) = Cardinality(tables)
         /\ \A i \in tables :
              FxRounds[r][Cardinality({ j \in tables : j <= i })]
                = CirclePair(list, r - 1, i)

C13_Witness ==
  /\ FixturesDone
  /\ Len(FxIds) = 4
  /\ FxRounds[1] = << <<FxIds[4], FxIds[1]>>, <<FxIds[2], FxIds[3]>> >>
  /\ FxRounds[2] = << <<FxIds[1], FxIds[3]>>, <<FxIds[4], FxIds[2]>> >>

\* ------------------------------------------------- claims on the award

\* C14: the points function answers every pair of scores in 0..999, with
\* (3,0) when score1 > score2, (0,3) when score2 > score1 and (1,1) when the
\* scores are equal; it produces no other award.
C14_PointsTable ==
  /\ last.op = "points_call" => ENABLED ComputePoints
  /\ last.op = "points" =>
       LET score1 == Val(last.score)[1]
           score2 == Val(last.score)[2]
           award  == Val(last.dto)
       IN /\ score1 > score2 => award = <<3, 0>>
          /\ score2 > score1 => award = <<0, 3>>
          /\ score1 = score2 => award = <<1, 1>>
          /\ award \in { <<3, 0>>, <<0, 3>>, <<1, 1>> }

C14_Witness ==
  /\ last.op = "points"
  /\ last.score = Some(<<MaxScore, MaxScore>>)
  /\ last.dto = Some(<<1, 1>>)

\* --------------------------------------------- claims on the standings

\* The database of the current state.
Conn == DbOf(users, matches, score_confirmations)

StandingsDone == last.op = "standings"

StRound == Val(last.dto).round

StRows == Val(last.dto).rows

PlayerUsers == { id \in DOMAIN users : users[id].role = "player" }

\* The confirmed matches within the round filter that involve player p.
CountedMatches(p, round) ==
  { id \in DOMAIN matches :
      /\ IsConfirmed(matches[id])
      /\ p \in {matches[id].player1_id, matches[id].player2_id}
      /\ IsNull(round) \/ matches[id].round_number <= Val(round) }

\* The sum of f over S.
RECURSIVE SumOver(_, _)
SumOver(f, S) ==
  IF S = {} THEN 0
  ELSE LET x == CHOOSE x \in S : TRUE IN f[x] + SumOver(f, S \ {x})

\* Player p's own confirmed score in match id, and the opponent's.
OwnScore(p, id) ==
  IF matches[id].player1_id = p THEN Val(matches[id].confirmed_score1)
  ELSE Val(matches[id].confirmed_score2)

OtherScore(p, id) ==
  IF matches[id].player1_id = p THEN Val(matches[id].confirmed_score2)
  ELSE Val(matches[id].confirmed_score1)

\* C15: getStandings returns exactly one row per player-role user (players
\* without a confirmed match included, viewers never); in each row played is
\* the number of confirmed matches within the round filter that involve the
\* player, played = wins + draws + losses, points = 3 * wins + draws,
\* goals_for and goals_against are the sums of the player's own and of the
\* opponent's confirmed scores, goal_difference = goals_for - goals_against.
C15_StandingsRows ==
  StandingsDone =>
    /\ Len(StRows) = Cardinality(PlayerUsers)
    /\ { StRows[k].player_id : k \in DOMAIN StRows } = PlayerUsers
    /\ \A k \in DOMAIN StRows :
         LET row == StRows[k]
             counted == CountedMatches(row.player_id, StRound)
         IN /\ row.played = Cardinality(counted)
            /\ row.played = row.wins + row.draws + row.losses
            /\ row.points = 3 * row.wins + row.draws
            /\ row.goals_for =
                 SumOver([id \in counted |-> OwnScore(row.player_id, id)], counted)
            /\ row.goals_against =
                 SumOver([id \in counted |-> OtherScore(row.player_id, id)], counted)
            /\ row.goal_difference = row.goals_for - row.goals_against

\* A table with a viewer in the roster, a registered player who has played
\* nothing, and a player with a win, a draw and a loss.
C15_Witness ==
  /\ StandingsDone
  /\ StRound = Null
  /\ \E id \in DOMAIN users : users[id].role = "viewer"
  /\ \E k \in DOMAIN StRows : StRows[k].played = 0 /\ StRows[k].player_id > Len(DemoUsers)
  /\ \E k \in DOMAIN StRows :
       StRows[k].wins = 1 /\ StRows[k].draws = 1 /\ StRows[k].losses = 1

\* Row a must stand above row b: more points, or as many and a better goal
\* difference, or those equal and more goals scored, or all three equal and
\* a display name that comes first when case is ignored.
Outranks(a, b) ==
  \/ a.points > b.points
  \/ a.points = b.points /\ a.goal_difference > b.goal_difference
  \/ /\ a.points = b.points
     /\ a.goal_difference = b.goal_difference
     /\ a.goals_for > b.goals_for
  \/ /\ a.points = b.points
     /\ a.goal_difference = b.goal_difference
     /\ a.goals_for = b.goals_for
     /\ TextLess(TextLower(CodePoints(a.display_name)),
                 TextLower(CodePoints(b.display_name)))

\* C16: the rows of getStandings are ordered by points descending, then
\* goal_difference descending, then goals_for descending, then display_name
\* ascending with case ignored: no row stands below a row it outranks; the
\* positions are 1..N in that order, each used exactly once.
C16_StandingsOrder ==
  StandingsDone =>
    /\ \A k \in DOMAIN StRows : StRows[k].position = k
    /\ \A j, k \in DOMAIN StRows : j < k => ~Outranks(StRows[k], StRows[j])

\* A table where goals scored decide between two rows and the name, case
\* ignored, decides between "bob adams" and "Bob Singh".
C16_Witness ==
  /\ StandingsDone
  /\ \E k \in DOMAIN StRows :
       /\ k + 1 \in DOMAIN StRows
       /\ StRows[k].points = StRows[k + 1].points
       /\ StRows[k].goal_difference = StRows[k + 1].goal_difference
       /\ StRows[k].goals_for > StRows[k + 1].goals_for
  /\ \E k \in DOMAIN StRows :
       /\ k + 1 \in DOMAIN StRows
       /\ StRows[k].display_name = "bob adams"
       /\ StRows[k + 1].display_name = "Bob Singh"
       /\ StRows[k].points = StRows[k + 1].points
       /\ StRows[k].goals_for = StRows[k + 1].goals_for

\* What the result of match id is worth to player p: 3 for the higher
\* score, 1 each for equal scores, 0 for the lower.
AwardOf(p, id) ==
  IF OwnScore(p, id) > OtherScore(p, id) THEN 3
  ELSE IF OwnScore(p, id) = OtherScore(p, id) THEN 1
  ELSE 0

\* The confirmed matches of round exactly r that involve player p.
MatchesOfRound(p, r) ==
  { id \in DOMAIN matches :
      /\ IsConfirmed(matches[id])
      /\ p \in {matches[id].player1_id, matches[id].player2_id}
      /\ matches[id].round_number = r }

LowestRound ==
  CHOOSE r \in { matches[id].round_number : id \in DOMAIN matches } :
    \A id \in DOMAIN matches : r <= matches[id].round_number

\* C17: getStandings(upToRound = r) folds only the confirmed matches of
\* rounds <= r: a row's played and points are the totals over those rounds,
\* its round_points the total over the confirmed matches of round r alone;
\* so for the lowest round round_points equals points.
C17_UpToRound ==
  (StandingsDone /\ ~IsNull(StRound)) =>
    \A k \in DOMAIN StRows :
      LET row == StRows[k]
          p == row.player_id
          upto == CountedMatches(p, StRound)
          exact == MatchesOfRound(p, Val(StRound))
      IN /\ row.played = Cardinality(upto)
         /\ row.points = SumOver([id \in upto |-> AwardOf(p, id)], upto)
         /\ row.round_points = SumOver([id \in exact |-> AwardOf(p, id)], exact)
         /\ (DOMAIN matches # {} /\ Val(StRound) = LowestRound)
              => row.round_points = row.points

\* Standings up to round 2 where a player earned points in round 1 and in
\* round 2 while round 3 is confirmed too.
C17_Witness ==
  /\ StandingsDone
  /\ StRound = Some(2)
  /\ \A id \in DOMAIN matches : IsConfirmed(matches[id])
  /\ \E k \in DOMAIN StRows :
       /\ StRows[k].round_points > 0
       /\ StRows[k].points > StRows[k].round_points
       /\ StRows[k].played = 2

\* ------------------------------------------- claims on the round points

RoundPointsDone == last.op = "round_points"

RpTables == Val(last.dto)

\* The entry of player p in a sequence of rows.
RowOf(rows, p) == rows[CHOOSE k \in DOMAIN rows : rows[k].player_id = p]

\* C18: getRoundPoints returns one table for every round number that has a
\* match, confirmed or not, in ascending order; each table holds one entry
\* per player-role user, whose points are those of the confirmed matches of
\* exactly that round (0 if none); the entry of round r equals the player's
\* round_points in getStandings(upToRound = r), and the player's entries of
\* the rounds <= r add up to the points in getStandings(upToRound = r).
C18_RoundPoints ==
  RoundPointsDone =>
    /\ { RpTables[k].round_number : k \in DOMAIN RpTables }
         = { matches[id].round_number : id \in DOMAIN matches }
    /\ \A j, k \in DOMAIN RpTables :
         j < k => RpTables[j].round_number < RpTables[k].round_number
    /\ \A k \in DOMAIN RpTables :
         LET r == RpTables[k].round_number
             entries == RpTables[k].points
             table == Standings(Conn, Some(r))
         IN /\ Len(entries) = Cardinality(PlayerUsers)
            /\ { entries[e].player_id : e \in DOMAIN entries } = PlayerUsers
            /\ \A e \in DOMAIN entries :
                 LET p == entries[e].player_id
                     exact == MatchesOfRound(p, r)
                     sofar == { j \in DOMAIN RpTables : RpTables[j].round_number <= r }
                 IN /\ entries[e].points
                         = SumOver([id \in exact |-> AwardOf(p, id)], exact)
                    /\ entries[e].points = RowOf(table, p).round_points
                    /\ SumOver([j \in sofar |-> RowOf(RpTables[j].points, p).points],
                               sofar)
                         = RowOf(table, p).points

\* Round 1 is confirmed, round 2 has a confirmed and an open match, round 3
\* is open: three tables, the last with zeros only.
C18_Witness ==
  /\ RoundPointsDone
  /\ Len(RpTables) = 3
  /\ \E e \in DOMAIN RpTables[1].points : RpTables[1].points[e].points = 3
  /\ \E e \in DOMAIN RpTables[2].points : RpTables[2].points[e].points = 1
  /\ \A e \in DOMAIN RpTables[3].points : RpTables[3].points[e].points = 0
  /\ \E id \in DOMAIN matches :
       matches[id].round_number = 2 /\ ~IsConfirmed(matches[id])
  /\ Cardinality(PlayerUsers) = 5

\* ------------------------------------------ claims on the current round

\* The rounds that hold a match without a confirmed result.
OpenRounds ==
  { matches[id].round_number : id \in { i \in DOMAIN matches : ~IsConfirmed(matches[i]) } }

AllRounds == { matches[id].round_number : id \in DOMAIN matches }

\* C19: in every state the current round is the lowest round number that
\* holds a match without a confirmed result; if every match is confirmed it
\* is the highest round number present; if there is no match it is absent.
\* GET /live reports that value.
C19_CurrentRound ==
  LET current == CurrentRound(Conn) IN
  /\ OpenRounds # {} =>
       /\ ~IsNull(current)
       /\ Val(current) \in OpenRounds
       /\ \A r \in OpenRounds : Val(current) <= r
  /\ (OpenRounds = {} /\ AllRounds # {}) =>
       /\ ~IsNull(current)
       /\ Val(current) \in AllRounds
       /\ \A r \in AllRounds : r <= Val(current)
  /\ AllRounds = {} => IsNull(current)
  /\ last.op = "live" => Val(last.dto).current_round = current

\* GET /live answers round 2: round 1 is confirmed, round 2 has an open
\* match, and a match of round 3 is confirmed already.
C19_Witness ==
  /\ last.op = "live"
  /\ Val(last.dto).current_round = Some(2)
  /\ \A id \in DOMAIN matches : matches[id].round_number = 1 => IsConfirmed(matches[id])
  /\ \E id \in DOMAIN matches : matches[id].round_number = 3 /\ IsConfirmed(matches[id])
  /\ \E id \in DOMAIN matches : matches[id].round_number = 3 /\ ~IsConfirmed(matches[id])

\* -------------------------------- claims on standings under submissions

\* A submission passed the checks and was written.
SubmittedNow == last'.op = "submit" /\ last'.kind = "OK"

\* The step confirms no match.
ConfirmsNothing ==
  \A id \in DOMAIN matches : IsConfirmed(matches'[id]) <=> IsConfirmed(matches[id])

\* C20: standings are a function of the roster and of the confirmed scores
\* only: in every state getStandings gives, for every round filter, the rows
\* it gives on the same users and matches with no confirmation row at all;
\* and a submission that confirms no match changes neither users nor
\* matches, so it leaves the rows of every round filter as they were.
C20_StandingsIgnoreReports ==
  /\ [](\A round \in RoundFilters :
          Standings(Conn, round) = Standings(DbOf(users, matches, {}), round))
  /\ [][(SubmittedNow /\ ConfirmsNothing) => UNCHANGED <<users, matches>>]_vars

\* Match 1 is confirmed and counts in the standings; match 3 holds two
\* reports that disagree and counts nowhere.
C20_Witness ==
  /\ last.op = "submit"
  /\ last.kind = "OK"
  /\ last.match = 3
  /\ IsConfirmed(matches[1])
  /\ ~IsConfirmed(matches[3])
  /\ Cardinality(RowsOf(score_confirmations, 3)) = 2
  /\ \E k \in 1..Len(Standings(Conn, Null)) : Standings(Conn, Null)[k].played = 1
  /\ \A k \in 1..Len(Standings(Conn, Null)) : Standings(Conn, Null)[k].played <= 1

\* --------------------------------------- claims on standings by round

ByRoundDone == last.op = "standings_by_round"

Snapshots == Val(last.dto)

\* The RoundDto GET /rounds gives for round r.
RoundDtoOf(r) ==
  LET rounds == FetchRounds(Conn, Null)
  IN rounds[CHOOSE k \in DOMAIN rounds : rounds[k].round_number = r]

\* C21: getStandingsByRound returns one snapshot per round number present
\* in the match set, in ascending order; the snapshot of round r carries the
\* rows of getStandings(upToRound = r) and a flag that is true iff every
\* match of round r is confirmed, the same flag getRounds gives that round.
C21_StandingsByRound ==
  ByRoundDone =>
    /\ { Snapshots[k].round_number : k \in DOMAIN Snapshots } = AllRounds
    /\ \A j, k \in DOMAIN Snapshots :
         j < k => Snapshots[j].round_number < Snapshots[k].round_number
    /\ \A k \in DOMAIN Snapshots :
         LET r == Snapshots[k].round_number IN
         /\ Snapshots[k].standings = Standings(Conn, Some(r))
         /\ Snapshots[k].is_complete
              <=> \A id \in DOMAIN matches :
                    matches[id].round_number = r => IsConfirmed(matches[id])
         /\ Snapshots[k].is_complete <=> RoundDtoOf(r).is_complete

\* Round 1 still has an open match while round 2 is complete.
C21_Witness ==
  /\ ByRoundDone
  /\ Len(Snapshots) = 3
  /\ ~Snapshots[1].is_complete
  /\ Snapshots[2].is_complete
  /\ \E k \in DOMAIN Snapshots[2].standings : Snapshots[2].standings[k].round_points = 3
  /\ \E k \in DOMAIN Snapshots[1].standings : Snapshots[1].standings[k].points = 1

\* ------------------------------------------------------------------- C23

\* C23: even when submissions interleave between a handler's read of the
\* match and its write transaction, no confirmation row is created or
\* modified for a match once it is confirmed: in every reachable state a
\* confirmed match has a report from both participants and both stored pairs
\* equal the confirmed pair.
C23_ConfirmedRowsAgree ==
  /\ [](\A id \in DOMAIN matches :
          IsConfirmed(matches[id]) =>
            BothReport(matches, score_confirmations, id, ConfirmedPair(matches[id])))
  /\ [][\A id \in DOMAIN matches :
          IsConfirmed(matches[id]) =>
            RowsOf(score_confirmations', id) = RowsOf(score_confirmations, id)]_vars

\* ------------------------------------------------------------------- C27

\* The failure conditions of a submitConfirmation, each taken on its own.
NoSession(user) == IsNull(user)

NotPlayer(user) == ~IsNull(user) /\ users[Val(user)].role # "player"

UnknownMatch(match_id) == match_id \notin DOMAIN matches

NotParticipant(user, match_id) ==
  /\ ~IsNull(user)
  /\ match_id \in DOMAIN matches
  /\ Val(user) \notin Participants(matches[match_id])

AlreadyConfirmed(match_id) ==
  match_id \in DOMAIN matches /\ IsConfirmed(matches[match_id])

\* C27: submitConfirmation answers the first failure that applies, in the
\* order Unauthorized (no session), Forbidden (role is not player), NotFound
\* (unknown match), Forbidden (not a participant), Conflict (already
\* confirmed): a viewer gets Forbidden also for an unknown match, and a
\* player who is not a participant gets Forbidden also when the match is
\* confirmed.
C27_FirstFailureWins ==
  [][CalledNow =>
       LET user == last'.user
           m    == last'.match
           kind == last'.kind
           roleDetail == "Only players can confirm scores."
           partDetail == "You are not assigned to this match."
       IN /\ kind = "Unauthorized" <=> NoSession(user)
          /\ (kind = "Forbidden" /\ last'.detail = roleDetail)
               <=> (~NoSession(user) /\ NotPlayer(user))
          /\ kind = "NotFound"
               <=> (~NoSession(user) /\ ~NotPlayer(user) /\ UnknownMatch(m))
          /\ (kind = "Forbidden" /\ last'.detail = partDetail)
               <=> (~NoSession(user) /\ ~NotPlayer(user) /\ NotParticipant(user, m))
          /\ kind = "Conflict"
               <=> (/\ ~NoSession(user) /\ ~NotPlayer(user)
                    /\ ~NotParticipant(user, m) /\ AlreadyConfirmed(m))
          /\ (NotPlayer(user) /\ UnknownMatch(m)) => kind = "Forbidden"
          /\ (NotParticipant(user, m) /\ ~NotPlayer(user) /\ AlreadyConfirmed(m))
               => kind = "Forbidden"
          /\ kind = ""
               <=> ~(\/ NoSession(user) \/ NotPlayer(user) \/ UnknownMatch(m)
                     \/ NotParticipant(user, m) \/ AlreadyConfirmed(m))]_vars

\* A player who is not a participant of a confirmed match was answered
\* Forbidden.
C27_Witness ==
  /\ last.op = "confirm_return"
  /\ last.kind = "Forbidden"
  /\ last.detail = "You are not assigned to this match."
  /\ AlreadyConfirmed(last.match)
  /\ ~NotPlayer(last.user)

\* ------------------------------------------------------------------- C24

\* The players who have a stored report for the match.
Reporters(id) == { c.player_id : c \in RowsOf(score_confirmations, id) }

\* C24: a match that holds reports from only one participant is not
\* confirmed and is reported pending, however often that participant has
\* resubmitted and whatever pairs were sent.
C24_OneReporterIsPending ==
  \A id \in DOMAIN matches :
    Cardinality(Reporters(id)) = 1 =>
      /\ ~IsConfirmed(matches[id])
      /\ ReportedStatus(id) = "pending"
      /\ last.op = "rounds" => Val(last.dto)[id].status = "pending"

\* The only reporter of a match has just replaced the pair stored before by
\* a different one.
C24_Witness ==
  /\ last.op = "confirm_txn"
  /\ last.before = "pending"
  /\ Cardinality(Reporters(last.match)) = 1
  /\ Cardinality(submitted[last.match]) >= 2
  /\ ReportedStatus(last.match) = "pending"

\* ------------------------------------------------------------------- C25

\* The tables changed in this step.
TablesChanged ==
  <<users, matches, score_confirmations>>' # <<users, matches, score_confirmations>>

\* How far a status is on the way pending, disputed, confirmed.
StatusRank(s) == CASE s = "pending" -> 1 [] s = "disputed" -> 2 [] s = "confirmed" -> 3

\* C25: the reported status of a match only moves forward: pending may
\* become disputed or confirmed, disputed may become confirmed; no step takes
\* a match from confirmed to another status or from disputed back to pending.
C25_StatusMovesForward ==
  [][TablesChanged =>
       \A id \in DOMAIN matches :
         LET was == BuildMatchDto(matches, score_confirmations, id, Null).status
             now == BuildMatchDto(matches', score_confirmations', id, Null).status
         IN /\ {was, now} \subseteq {"pending", "disputed", "confirmed"}
            /\ StatusRank(was) <= StatusRank(now)
            /\ was = "confirmed" => now = "confirmed"
            /\ was = "disputed" => now # "pending"]_vars

\* A write that had passed the check before the match was confirmed has left
\* two different pairs stored for it; the match is still reported confirmed.
C25_Witness ==
  /\ last.op = "confirm_txn"
  /\ last.before = "confirmed"
  /\ Cardinality(StoredPairs(last.match)) = 2
  /\ ReportedStatus(last.match) = "confirmed"

\* ------------------------------------------------------------------- C26

\* The rounds GET /rounds reports complete on these tables.
CompleteRounds(conn) ==
  LET rounds == FetchRounds(conn, Null)
  IN { rounds[k].round_number : k \in { j \in DOMAIN rounds : rounds[j].is_complete } }

\* C26: across submissions on a fixed match set the current round never
\* decreases, and a round reported complete stays reported complete.
C26_RoundsMoveForward ==
  [][TablesChanged =>
       LET after == DbOf(users', matches', score_confirmations')
       IN /\ DOMAIN matches' = DOMAIN matches
          /\ Val(CurrentRound(Conn)) <= Val(CurrentRound(after))
          /\ \A r \in CompleteRounds(Conn) : r \in CompleteRounds(after)]_vars

\* Round 1 is complete and round 2 is the current round, and a write that
\* had passed the check before match 1 was confirmed has just been applied
\* to it.
C26_Witness ==
  /\ last.op = "confirm_txn"
  /\ last.before = "confirmed"
  /\ last.match = 1
  /\ Val(last.score) # ConfirmedPair(matches[1])
  /\ CompleteRounds(Conn) = {1}
  /\ CurrentRound(Conn) = Some(2)

\* ------------------------------------------------------------------- C28

RowsInserted == last.op = "fixture_rows"

FxRows == Val(last.dto).rows

\* The positions of the rows of round r, which are in insertion order.
RowsOfRound(r) == { k \in DOMAIN FxRows : FxRows[k].round_number = r }

\* C28: in the match rows created from the generator's output every match
\* has two distinct players of the list, no player is in two matches of one
\* round, the round numbers are those of the rounds in generation order
\* (1..R, every round of two or more players having a match), and the rows
\* of a round carry the table numbers 1..k in the order the round's pairs
\* were emitted; a bye takes no table number.
C28_MatchRows ==
  RowsInserted =>
    LET rounds == FxRounds
        n      == Len(FxIds)
    IN /\ \A k \in DOMAIN FxRows :
            /\ FxRows[k].player1_id # FxRows[k].player2_id
            /\ {FxRows[k].player1_id, FxRows[k].player2_id} \subseteq IdSet(FxIds)
       /\ \A j, k \in DOMAIN FxRows :
            (j # k /\ FxRows[j].round_number = FxRows[k].round_number) =>
              {FxRows[j].player1_id, FxRows[j].player2_id}
                \cap {FxRows[k].player1_id, FxRows[k].player2_id} = {}
       /\ \A j, k \in DOMAIN FxRows :
            j < k => FxRows[j].round_number <= FxRows[k].round_number
       /\ { FxRows[k].round_number : k \in DOMAIN FxRows }
            = IF n >= 2 THEN 1..Len(rounds) ELSE {}
       /\ \A r \in DOMAIN rounds :
            /\ Cardinality(RowsOfRound(r)) = Len(rounds[r])
            /\ n >= 2 => Len(rounds[r]) = n \div 2
            /\ { FxRows[k].table_number : k \in RowsOfRound(r) } = 1..Len(rounds[r])
            /\ \A j, k \in RowsOfRound(r) :
                 j < k => FxRows[j].table_number < FxRows[k].table_number
            /\ \A k \in RowsOfRound(r) :
                 <<FxRows[k].player1_id, FxRows[k].player2_id>>
                   = rounds[r][FxRows[k].table_number]

\* Five players: five rounds with one bye each, ten rows, tables 1 and 2 in
\* every round.
C28_Witness ==
  /\ RowsInserted
  /\ Len(FxIds) = 5
  /\ Len(FxRows) = 10
  /\ FxRows[10].round_number = 5
  /\ FxRows[10].table_number = 2
  /\ FxRows[9].table_number = 1

\* ------------------------------------------------------------------- C22

\* This step served a seed request, or the first half of a forced one.
SeedStep == last'.op \in {"seed", "seed_delete"}

MatchesExist == DOMAIN matches # {}

\* C22 as claimed: the seed is a no-op when matches already exist: it
\* leaves the set of matches, their confirmed scores and all confirmation
\* rows unchanged.
C22_SeedIsNoOp ==
  [][(SeedStep /\ MatchesExist) =>
       /\ matches' = matches
       /\ score_confirmations' = score_confirmations]_vars

\* C22 as amended: without force the seed is a no-op when matches already
\* exist: it leaves users, matches, confirmed scores and confirmation rows
\* unchanged and answers the counts with seeded = 0.  With force it first
\* deletes every user, match and confirmation row and then seeds anew: the
\* matches it leaves have new ids, no confirmed score and no report.
C22_PlainSeedIsNoOp ==
  /\ [](MatchesExist => DOMAIN users # {})
  /\ [][(last'.op = "seed" /\ last'.detail = "" /\ MatchesExist) =>
          /\ UNCHANGED <<users, matches, score_confirmations, sqlite_sequence>>
          /\ Val(last'.dto).seeded = 0
          /\ Val(last'.dto).matches = Cardinality(DOMAIN matches)]_vars
  /\ [][last'.op = "seed_delete" =>
          /\ users' = <<>> /\ matches' = <<>> /\ score_confirmations' = {}
          /\ sqlite_sequence' = sqlite_sequence]_vars
  /\ [][(last'.op = "seed" /\ ~MatchesExist) =>
          /\ Val(last'.dto).seeded = 1
          /\ Cardinality(DOMAIN matches') = Len(SeedMatches)
          /\ \A id \in DOMAIN matches' :
               /\ id > sqlite_sequence.matches
               /\ ~IsConfirmed(matches'[id])
               /\ RowsOf(score_confirmations', id) = {}]_vars

\* A seed without force has just been answered on tables that hold a
\* confirmed match and its two reports.
C22_Witness ==
  /\ last.op = "seed"
  /\ last.detail = ""
  /\ Val(last.dto).seeded = 0
  /\ \E id \in DOMAIN matches :
       /\ IsConfirmed(matches[id])
       /\ Cardinality(RowsOf(score_confirmations, id)) = 2

====
